---- MODULE Spec2Model ----
(***************************************************************************)
(* convert_genesis.py: four CSV part files are read one after another with *)
(* csv.DictReader, every row is normalised into an NFT record, and the     *)
(* list of records is dumped as one JSON array.                            *)
(*                                                                         *)
(* A file is the list of rows csv.reader yields for it: each row is the    *)
(* list of its fields, and a blank line is the empty list.                 *)
(***************************************************************************)
EXTENDS Integers, Sequences, FiniteSets

VARIABLES fs, pc, i, open_files, opened, eof, reader, fieldnames, all_rows,
          row_idx, nfts, out, err, stdout

vars == <<fs, pc, i, open_files, opened, eof, reader, fieldnames, all_rows,
          row_idx, nfts, out, err, stdout>>

(***************************************************************************)
(* Bounds of the model.                                                    *)
(***************************************************************************)
\* The number of lines, beyond part 1's header line, in the four files together.
MaxRows == 2

(***************************************************************************)
(* Python values.                                                          *)
(***************************************************************************)
\* Python's None where a string is expected (a dict key or a dict value).
None == "<None>"

\* Python's None where a list of strings is expected (fieldnames).
NoneList == <<None>>

parts == << "static/data/genesis_part1.csv",
            "static/data/genesis_part2.csv",
            "static/data/genesis_part3.csv",
            "static/data/genesis_part4.csv" >>

output_file == "static/data/genesis_nfts.json"

(***************************************************************************)
(* The input files the model draws from.                                   *)
(***************************************************************************)
CanonicalHeader == <<"No", "Token ID", "Name", "Image URL", "Contract Address">>

\* The same columns in another order: the header is read, never assumed.
ReorderedHeader == <<"Contract Address", "Token ID", "Name", "Image URL", "No">>

BlankLine == <<>>

\* A file of no line at all.
EmptyFile == <<>>

Headers == {CanonicalHeader, ReorderedHeader, BlankLine}

FullLine == <<"1", "42", "Cool Ape", "http://img/1.png", "0xABC123">>

EmptyFieldsLine == <<"2", "7", "", "", "">>

ShortLine == <<"3", "9", "Bee">>

LongLine == <<"4", "11", "Cat", "http://img/4.png", "0xdef", "surplus">>

Lines == {FullLine, EmptyFieldsLine, ShortLine, LongLine, BlankLine, CanonicalHeader}

RECURSIVE SeqsOfLen(_)
SeqsOfLen(n) ==
    IF n = 0 THEN {<<>>}
    ELSE {Append(s, l) : s \in SeqsOfLen(n - 1), l \in Lines}

SeqsUpTo(n) == UNION {SeqsOfLen(m) : m \in 0..n}

\* n files holding at most b lines together.
RECURSIVE Files(_, _)
Files(n, b) ==
    IF n = 0 THEN {<<>>}
    ELSE UNION {{<<s>> \o r : r \in Files(n - 1, b - Len(s))} : s \in SeqsUpTo(b)}

\* Part 1 is empty, or a first line followed by lines; parts 2-4 are lines.
FileSystems ==
    {<<EmptyFile>> \o r : r \in Files(3, MaxRows)}
    \cup UNION {{<<<<h>> \o s>> \o r : r \in Files(3, MaxRows - Len(s))} :
                    h \in Headers, s \in SeqsUpTo(MaxRows)}

(***************************************************************************)
(* str.lower, on the strings the input files hold.                         *)
(***************************************************************************)
\* A mutant of lower: str.swapcase in its place.
lower_swapcase(s) ==
    CASE s = "0xABC123" -> "0Xabc123"
      [] s = "0Xabc123" -> "0xABC123"
      [] s = "0xabc123" -> "0XABC123"
      [] s = "0xdef" -> "0XDEF"
      [] s = "0XDEF" -> "0xdef"
      [] OTHER -> s

lower(s) ==
    CASE s = "0xABC123" -> "0xabc123"
      [] s = "Cool Ape" -> "cool ape"
      [] s = "Bee" -> "bee"
      [] s = "Cat" -> "cat"
      [] s = "No" -> "no"
      [] s = "Token ID" -> "token id"
      [] s = "Name" -> "name"
      [] s = "Image URL" -> "image url"
      [] s = "Contract Address" -> "contract address"
      [] OTHER -> s

(***************************************************************************)
(* csv.DictReader.                                                         *)
(***************************************************************************)
restkey == None

restval == None

\* A mutant of DictReader: the fieldnames argument is dropped, so every
\* reader takes its keys from the first line of its own file.
DictReaderOwnHeader(names) == [fieldnames |-> NoneList, line_num |-> 0]

\* DictReader.__init__: the keys given (or None) and no line read yet.
DictReader(names) == [fieldnames |-> names, line_num |-> 0]

\* DictReader.fieldnames: with no keys yet, the next row of the file becomes
\* the keys; at the end of the file they stay None.
Fieldnames(r, file) ==
    IF r.fieldnames = NoneList /\ r.line_num < Len(file)
    THEN [fieldnames |-> file[r.line_num + 1], line_num |-> r.line_num + 1]
    ELSE r

\* "while row == []: row = next(self.reader)": the number of the first
\* non-blank row after row n, or 0 at the end of the file (StopIteration).
RECURSIVE NextRow(_, _)
NextRow(file, n) ==
    IF n >= Len(file) THEN 0
    ELSE IF file[n + 1] # <<>> THEN n + 1
    ELSE NextRow(file, n + 1)

Min(a, b) == IF a < b THEN a ELSE b

Last(S) == CHOOSE x \in S : \A y \in S : y <= x

\* A mutant of MakeDict: the last key of a long row takes the row's last
\* field instead of the field at its own position.
MakeDictOverflow(names, row) ==
    LET lf == Len(names)
        lr == Len(row)
        keys == {names[j] : j \in 1..lf} \cup (IF lf < lr THEN {restkey} ELSE {})
    IN  [key \in keys |->
            IF lf < lr /\ key = restkey THEN SubSeq(row, lf + 1, lr)
            ELSE IF lf < lr /\ key = names[lf] THEN row[lr]
            ELSE IF \E j \in (lr + 1)..lf : names[j] = key THEN restval
            ELSE row[Last({j \in 1..Min(lf, lr) : names[j] = key})]]

\* dict(zip(fieldnames, row)), then the surplus fields under restkey or the
\* missing keys set to restval.
MakeDict(names, row) ==
    LET lf == Len(names)
        lr == Len(row)
        keys == {names[j] : j \in 1..lf} \cup (IF lf < lr THEN {restkey} ELSE {})
    IN  [key \in keys |->
            IF lf < lr /\ key = restkey THEN SubSeq(row, lf + 1, lr)
            ELSE IF \E j \in (lr + 1)..lf : names[j] = key THEN restval
            ELSE row[Last({j \in 1..Min(lf, lr) : names[j] = key})]]

\* DictReader.__next__.
Next_(r, file) ==
    LET r1 == IF r.line_num = 0 THEN Fieldnames(r, file) ELSE r
        n == NextRow(file, r1.line_num)
    IN  IF n = 0
        THEN [stop |-> TRUE, reader |-> r1, row |-> <<>>]
        ELSE [stop |-> FALSE,
              reader |-> [r1 EXCEPT !.line_num = n],
              row |-> MakeDict(r1.fieldnames, file[n])]

(***************************************************************************)
(* The script.                                                             *)
(***************************************************************************)
\* dict.get(key, default)
get(row, key, default) == IF key \in DOMAIN row THEN row[key] ELSE default

\* A mutant of all_rows_append: the row is put first.
all_rows_prepend(rows, row) == <<row>> \o rows

\* all_rows.append(row)
all_rows_append(rows, row) == Append(rows, row)

\* A mutant of nfts_append: the check the script's comments consider, which
\* keeps only the records that have a contract address.
nfts_append_valid(list, nft) ==
    IF nft.token_address = "" THEN list ELSE Append(list, nft)

\* nfts.append(nft)
nfts_append(list, nft) == Append(list, nft)

\* A mutant of MakeNft: the token id is taken from the sequence number.
MakeNftFromNo(row) ==
    [token_address |-> lower(get(row, "Contract Address", "")),
     token_id |-> get(row, "No", ""),
     name |-> get(row, "Name", ""),
     image_url |-> get(row, "Image URL", ""),
     metadata |-> [name |-> get(row, "Name", ""),
                   image |-> get(row, "Image URL", "")]]

\* A mutant of MakeNft: metadata.image holds the name.
MakeNftMetaName(row) ==
    [token_address |-> lower(get(row, "Contract Address", "")),
     token_id |-> get(row, "Token ID", ""),
     name |-> get(row, "Name", ""),
     image_url |-> get(row, "Image URL", ""),
     metadata |-> [name |-> get(row, "Name", ""),
                   image |-> get(row, "Name", "")]]

\* The record the processing loop builds of a row whose contract is a string.
MakeNft(row) ==
    [token_address |-> lower(get(row, "Contract Address", "")),
     token_id |-> get(row, "Token ID", ""),
     name |-> get(row, "Name", ""),
     image_url |-> get(row, "Image URL", ""),
     metadata |-> [name |-> get(row, "Name", ""),
                   image |-> get(row, "Image URL", "")]]

\* A mutant of WithExit: the file is opened without "with" and never closed.
WithExitLeak(files, path) == files

\* Leaving a "with open(...)" block, normally or by an exception, closes f.
WithExit(files, path) == files \ {path}

\* A mutant of Propagate: the exception is swallowed and the run goes on
\* to the processing loop with the rows read so far.
Swallow(e) == [pc |-> "process", err |-> e]

\* No statement of the script catches an exception: it ends the run.
Propagate(e) == [pc |-> "aborted", err |-> e]

ReadErrors == {"OSError", "UnicodeDecodeError"}

Init ==
    /\ fs \in FileSystems
    /\ pc = "open"
    /\ i = 0
    /\ open_files = {}
    /\ opened = <<>>
    /\ eof = {}
    /\ reader = DictReader(NoneList)
    /\ fieldnames = NoneList
    /\ all_rows = <<>>
    /\ row_idx = 0
    /\ nfts = <<>>
    /\ out = [touched |-> FALSE, content |-> <<>>]
    /\ err = "none"
    /\ stdout = <<>>

\* open(part, 'r', encoding='utf-8') succeeds.
OpenPart ==
    /\ pc = "open"
    /\ open_files' = open_files \cup {parts[i + 1]}
    /\ opened' = Append(opened, parts[i + 1])
    /\ pc' = "reader"
    /\ UNCHANGED <<fs, i, eof, reader, fieldnames, all_rows, row_idx, nfts, out,
                   err, stdout>>

\* open(part, ...) raises: the file is missing or unreadable.
OpenPartFails ==
    /\ pc = "open"
    /\ pc' = Propagate("OSError").pc
    /\ err' = Propagate("OSError").err
    /\ UNCHANGED <<fs, i, open_files, opened, eof, reader, fieldnames, all_rows,
                   row_idx, nfts, out, stdout>>

\* i == 0: reader = csv.DictReader(f); fieldnames = reader.fieldnames
ReadHeader ==
    /\ pc = "reader"
    /\ i = 0
    /\ reader' = Fieldnames(DictReader(NoneList), fs[i + 1])
    /\ fieldnames' = reader'.fieldnames
    /\ pc' = "rows"
    /\ UNCHANGED <<fs, i, open_files, opened, eof, all_rows, row_idx, nfts, out,
                   err, stdout>>

\* i > 0: reader = csv.DictReader(f, fieldnames=fieldnames)
UseFieldnames ==
    /\ pc = "reader"
    /\ i # 0
    /\ reader' = DictReader(fieldnames)
    /\ pc' = "rows"
    /\ UNCHANGED <<fs, i, open_files, opened, eof, fieldnames, all_rows, row_idx,
                   nfts, out, err, stdout>>

\* for row in reader: all_rows.append(row)
AppendRow ==
    /\ pc = "rows"
    /\ LET nx == Next_(reader, fs[i + 1])
       IN  /\ ~nx.stop
           /\ reader' = nx.reader
           /\ all_rows' = all_rows_append(all_rows, nx.row)
    /\ UNCHANGED <<fs, pc, i, open_files, opened, eof, fieldnames, row_idx, nfts,
                   out, err, stdout>>

\* The reader is exhausted: the with block ends, f is closed, and the loop
\* over the parts goes on or ends.
EndOfPart ==
    /\ pc = "rows"
    /\ LET nx == Next_(reader, fs[i + 1])
       IN  /\ nx.stop
           /\ reader' = nx.reader
    /\ open_files' = WithExit(open_files, parts[i + 1])
    /\ eof' = eof \cup {parts[i + 1]}
    /\ IF i + 1 < Len(parts)
       THEN i' = i + 1 /\ pc' = "open"
       ELSE i' = i /\ pc' = "process"
    /\ UNCHANGED <<fs, opened, fieldnames, all_rows, row_idx, nfts, out, err,
                   stdout>>

\* Reading f raises (an I/O error, or bytes that are not UTF-8): the with
\* block closes f and the exception ends the run.
ReadFails ==
    /\ pc \in {"reader", "rows"}
    /\ \E e \in ReadErrors :
          /\ pc' = Propagate(e).pc
          /\ err' = Propagate(e).err
    /\ open_files' = WithExit(open_files, parts[i + 1])
    /\ UNCHANGED <<fs, i, opened, eof, reader, fieldnames, all_rows, row_idx,
                   nfts, out, stdout>>

\* One turn of "for row in all_rows" whose contract address is a string.
ProcessRow ==
    /\ pc = "process"
    /\ row_idx < Len(all_rows)
    /\ get(all_rows[row_idx + 1], "Contract Address", "") # None
    /\ nfts' = nfts_append(nfts, MakeNft(all_rows[row_idx + 1]))
    /\ row_idx' = row_idx + 1
    /\ UNCHANGED <<fs, pc, i, open_files, opened, eof, reader, fieldnames,
                   all_rows, out, err, stdout>>

\* row.get("Contract Address", "") is None, the restval of a short row: None
\* has no lower().
ProcessRowFails ==
    /\ pc = "process"
    /\ row_idx < Len(all_rows)
    /\ get(all_rows[row_idx + 1], "Contract Address", "") = None
    /\ pc' = Propagate("AttributeError").pc
    /\ err' = Propagate("AttributeError").err
    /\ UNCHANGED <<fs, i, open_files, opened, eof, reader, fieldnames, all_rows,
                   row_idx, nfts, out, stdout>>

\* open(output_file, 'w', encoding='utf-8') succeeds and truncates the file.
OpenOutput ==
    /\ pc = "process"
    /\ row_idx = Len(all_rows)
    /\ open_files' = open_files \cup {output_file}
    /\ opened' = Append(opened, output_file)
    /\ out' = [touched |-> TRUE, content |-> <<>>]
    /\ pc' = "dump"
    /\ UNCHANGED <<fs, i, eof, reader, fieldnames, all_rows, row_idx, nfts, err,
                   stdout>>

\* open(output_file, 'w', ...) raises: the path cannot be written.
OpenOutputFails ==
    /\ pc = "process"
    /\ row_idx = Len(all_rows)
    /\ pc' = Propagate("OSError").pc
    /\ err' = Propagate("OSError").err
    /\ UNCHANGED <<fs, i, open_files, opened, eof, reader, fieldnames, all_rows,
                   row_idx, nfts, out, stdout>>

\* json.dump(nfts, f, ...) writes the whole array; the with block closes f.
DumpJson ==
    /\ pc = "dump"
    /\ out' = [out EXCEPT !.content = nfts]
    /\ open_files' = WithExit(open_files, output_file)
    /\ pc' = "print"
    /\ UNCHANGED <<fs, i, opened, eof, reader, fieldnames, all_rows, row_idx,
                   nfts, err, stdout>>

\* A write of json.dump raises part-way: the with block closes f.
DumpFails ==
    /\ pc = "dump"
    /\ \E n \in 0..Len(nfts) : out' = [out EXCEPT !.content = SubSeq(nfts, 1, n)]
    /\ open_files' = WithExit(open_files, output_file)
    /\ pc' = Propagate("OSError").pc
    /\ err' = Propagate("OSError").err
    /\ UNCHANGED <<fs, i, opened, eof, reader, fieldnames, all_rows, row_idx,
                   nfts, stdout>>

\* print(f"Successfully created {output_file} with {len(nfts)} items.")
ReportSuccess ==
    /\ pc = "print"
    /\ stdout' = Append(stdout, [path |-> output_file, items |-> Len(nfts)])
    /\ pc' = "done"
    /\ UNCHANGED <<fs, i, open_files, opened, eof, reader, fieldnames, all_rows,
                   row_idx, nfts, out, err>>

Next ==
    \/ OpenPart
    \/ OpenPartFails
    \/ ReadHeader
    \/ UseFieldnames
    \/ AppendRow
    \/ EndOfPart
    \/ ReadFails
    \/ ProcessRow
    \/ ProcessRowFails
    \/ OpenOutput
    \/ OpenOutputFails
    \/ DumpJson
    \/ DumpFails
    \/ ReportSuccess

Spec == Init /\ [][Next]_vars

(***************************************************************************)
(* The input as the claims speak of it.                                    *)
(***************************************************************************)
AllParts == {parts[p] : p \in 1..Len(parts)}

IsBlank(line) == line = <<>>

NonBlank(file) == SelectSeq(file, LAMBDA line : ~IsBlank(line))

\* Part 1 holds a first line, which the reader takes as the header.
HasHeader == fs[1] # <<>>

\* The column names of part 1 (none when part 1 is empty).
Header == IF HasHeader THEN fs[1][1] ELSE <<>>

\* The lines of a part after part 1's header line.
LinesOf(p) == IF p = 1 /\ HasHeader THEN Tail(fs[1]) ELSE fs[p]

\* The data rows of a part: its non-blank lines after the header line.
DataRows(p) == NonBlank(LinesOf(p))

AllLines == LinesOf(1) \o LinesOf(2) \o LinesOf(3) \o LinesOf(4)

AllDataRows == DataRows(1) \o DataRows(2) \o DataRows(3) \o DataRows(4)

RowCount == Len(DataRows(1)) + Len(DataRows(2)) + Len(DataRows(3)) + Len(DataRows(4))

\* The column of the header that a key names: the last one of that name.
Col(key) == Last({j \in 1..Len(Header) : Header[j] = key})

NftKeys == {"Contract Address", "Token ID", "Name", "Image URL"}

NftFields(nft) ==
    {nft.token_address, nft.token_id, nft.name, nft.image_url,
     nft.metadata.name, nft.metadata.image}

IsPrefix(s, t) == Len(s) <= Len(t) /\ \A j \in 1..Len(s) : s[j] = t[j]

(***************************************************************************)
(* C1  Row count preservation.                                             *)
(***************************************************************************)
\* C1 as stated: on every input on which the run completes, the written
\* array holds as many records as the four parts hold data rows, part 1
\* counted without its header line.
C1_RowCountEveryInput ==
    pc = "done" =>
        /\ Len(out.content) = RowCount
        /\ Len(all_rows) = RowCount
        /\ Len(nfts) = RowCount

\* C1 as amended: on every input whose part 1 is not empty (its first line
\* is the header) and on which the run completes, the written array holds
\* as many records as the four parts hold data rows, part 1 counted without
\* its header line; ingestion and normalization drop and duplicate nothing.
C1_RowCount ==
    (pc = "done" /\ HasHeader) =>
        /\ Len(out.content) = RowCount
        /\ Len(all_rows) = RowCount
        /\ Len(nfts) = RowCount

C1_Witness ==
    /\ pc = "done"
    /\ HasHeader
    /\ Len(DataRows(1)) = 1
    /\ Len(DataRows(3)) = 1
    /\ Len(out.content) = 2

(***************************************************************************)
(* C2  Field defaulting.                                                   *)
(***************************************************************************)
\* C2 as stated: a row that misses a column still yields a record, each of
\* its six fields is a string (the empty string for the missing column),
\* never null, and no missing-field error is raised. Stated for the inputs
\* whose part 1 has its header line.
C2_FieldDefaulting ==
    HasHeader =>
        /\ err # "AttributeError"
        /\ \A j \in 1..Len(nfts) : None \notin NftFields(nfts[j])
        /\ \A j \in 1..Len(out.content) : None \notin NftFields(out.content[j])

(***************************************************************************)
(* C3  Order preservation.                                                 *)
(***************************************************************************)
\* C3 as stated: the i-th record of the output is the normalization of the
\* i-th data row of part1 ++ part2 ++ part3 ++ part4.
C3_OrderEveryInput ==
    pc = "done" =>
        /\ Len(out.content) = Len(AllDataRows)
        /\ \A j \in 1..Len(out.content) :
              out.content[j] = MakeNft(MakeDict(Header, AllDataRows[j]))

\* C3 as amended: when part 1 is not empty, the i-th record built, and the
\* i-th record of the written array, is the normalization of the i-th data
\* row of part1 ++ part2 ++ part3 ++ part4 under part 1's column names.
C3_Order ==
    HasHeader =>
        /\ Len(nfts) <= Len(AllDataRows)
        /\ \A j \in 1..Len(nfts) :
              nfts[j] = MakeNft(MakeDict(Header, AllDataRows[j]))
        /\ pc = "done" =>
              /\ Len(out.content) = Len(AllDataRows)
              /\ \A j \in 1..Len(out.content) :
                    out.content[j] = MakeNft(MakeDict(Header, AllDataRows[j]))

C3_Witness ==
    /\ pc = "done"
    /\ Header = CanonicalHeader
    /\ DataRows(2) = <<LongLine>>
    /\ DataRows(4) = <<FullLine>>
    /\ Len(out.content) = 2
    /\ out.content[1].token_id = "11"
    /\ out.content[2].token_id = "42"

(***************************************************************************)
(* C4  No partial output on input failure.                                 *)
(***************************************************************************)
\* C4: the output file is touched only after all four parts were opened in
\* turn and read to their end and every row was normalized; a run that a
\* part ended leaves the output file untouched.
C4_NoPartialOutput ==
    /\ out.touched =>
          /\ eof = AllParts
          /\ SubSeq(opened, 1, Len(parts)) = parts
          /\ row_idx = Len(all_rows)
          /\ Len(nfts) = Len(all_rows)
    /\ (pc = "aborted" /\ eof # AllParts) =>
          /\ ~out.touched
          /\ out.content = <<>>
          /\ output_file \notin open_files
          /\ stdout = <<>>

C4_Witness ==
    /\ pc = "aborted"
    /\ err = "UnicodeDecodeError"
    /\ i = 2
    /\ Len(all_rows) = 2
    /\ ~out.touched

(***************************************************************************)
(* C5  Field mapping.                                                      *)
(***************************************************************************)
\* C5: a data row that has all the columns yields a record whose
\* token_address is the lower-cased Contract Address and whose token_id,
\* name and image_url are the Token ID, Name and Image URL unchanged; the
\* record has no field for No; an empty Contract Address gives "".
C5_FieldMapping ==
    (HasHeader /\ NftKeys \subseteq {Header[c] : c \in 1..Len(Header)}) =>
        \A j \in 1..Len(nfts) :
            LET line == AllDataRows[j]
                nft == nfts[j]
            IN  Len(line) >= Len(Header) =>
                    /\ nft.token_address = lower(line[Col("Contract Address")])
                    /\ nft.token_id = line[Col("Token ID")]
                    /\ nft.name = line[Col("Name")]
                    /\ nft.image_url = line[Col("Image URL")]
                    /\ DOMAIN nft =
                          {"token_address", "token_id", "name", "image_url", "metadata"}
                    /\ DOMAIN nft.metadata = {"name", "image"}
                    /\ line[Col("Contract Address")] = "" => nft.token_address = ""
                    /\ (Header = CanonicalHeader /\ line = FullLine) =>
                          nft = [token_address |-> "0xabc123",
                                 token_id |-> "42",
                                 name |-> "Cool Ape",
                                 image_url |-> "http://img/1.png",
                                 metadata |-> [name |-> "Cool Ape",
                                               image |-> "http://img/1.png"]]

C5_Witness ==
    /\ pc = "done"
    /\ Header = CanonicalHeader
    /\ AllDataRows = <<FullLine, EmptyFieldsLine>>
    /\ out.content[1].token_address = "0xabc123"
    /\ out.content[1].name = "Cool Ape"
    /\ out.content[2].token_address = ""

(***************************************************************************)
(* C6  Metadata mirroring.                                                 *)
(***************************************************************************)
\* C6: in every record, built or written, metadata.name is name and
\* metadata.image is image_url, also where Name or Image URL is empty or
\* missing.
C6_MetadataMirroring ==
    /\ \A j \in 1..Len(nfts) :
          /\ nfts[j].metadata.name = nfts[j].name
          /\ nfts[j].metadata.image = nfts[j].image_url
    /\ \A j \in 1..Len(out.content) :
          /\ out.content[j].metadata.name = out.content[j].name
          /\ out.content[j].metadata.image = out.content[j].image_url

C6_Witness ==
    /\ pc = "done"
    /\ Len(out.content) = 2
    /\ out.content[1].name = "Bee"
    /\ out.content[1].image_url = None
    /\ out.content[2].name = ""
    /\ out.content[2].image_url = ""

(***************************************************************************)
(* C7  Address normalization idempotence.                                  *)
(***************************************************************************)
\* C7: lower-casing the token_address of a record again leaves it as it is.
C7_LowerIdempotent ==
    /\ \A j \in 1..Len(nfts) :
          lower(nfts[j].token_address) = nfts[j].token_address
    /\ \A j \in 1..Len(out.content) :
          lower(out.content[j].token_address) = out.content[j].token_address

C7_Witness ==
    /\ pc = "done"
    /\ \E j \in 1..Len(out.content) :
          /\ j <= Len(all_rows)
          /\ get(all_rows[j], "Contract Address", "") = "0xABC123"
          /\ out.content[j].token_address = "0xabc123"

(***************************************************************************)
(* C8  Header handling across parts.                                       *)
(***************************************************************************)
\* C8 as stated: the first line of part 1 is the header and is no record;
\* every other line of part 1 and every line of parts 2-4, the first
\* included, is mapped onto part 1's column names and kept as a row.
C8_EveryLineIsARow ==
    eof = AllParts =>
        /\ Len(all_rows) = Len(AllLines)
        /\ \A j \in 1..Len(all_rows) :
              all_rows[j] = MakeDict(Header, AllLines[j])

\* C8 as amended: when part 1 is not empty, its first line is the header
\* and is no record, and every other non-blank line of part 1 and every
\* non-blank line of parts 2-4, the first included, is mapped onto part 1's
\* column names and kept as a row (blank lines are skipped); a part 1 of
\* the header alone with empty parts 2-4 gives the empty array.
C8_HeaderHandling ==
    HasHeader =>
        /\ (pc = "rows" \/ i > 0 \/ eof # {}) => fieldnames = Header
        /\ Len(all_rows) <= Len(AllDataRows)
        /\ \A j \in 1..Len(all_rows) :
              all_rows[j] = MakeDict(Header, AllDataRows[j])
        /\ eof = AllParts => Len(all_rows) = Len(AllDataRows)
        /\ (pc = "done" /\ AllLines = <<>>) => out.content = <<>>

C8_Witness ==
    /\ pc = "done"
    /\ fs[1] = <<CanonicalHeader>>
    /\ fs[2] = <<CanonicalHeader, BlankLine>>
    /\ Len(out.content) = 1
    /\ out.content[1].token_address = "contract address"

(***************************************************************************)
(* C9  Resource discipline.                                                *)
(***************************************************************************)
\* C9: the files are opened in the order part1, part2, part3, part4, output;
\* at most one is open at a time, none is open when the next is opened, and
\* none is open when the run has ended or aborted.
C9_ResourceDiscipline ==
    /\ Cardinality(open_files) <= 1
    /\ IsPrefix(opened, parts \o <<output_file>>)
    /\ open_files # {} => (opened # <<>> /\ open_files = {opened[Len(opened)]})
    /\ pc \in {"open", "process", "print", "done", "aborted"} => open_files = {}

C9_Witness ==
    /\ pc = "aborted"
    /\ err = "OSError"
    /\ Len(opened) = 5
    /\ out.touched
    /\ open_files = {}

(***************************************************************************)
(* C10  Extra fields are ignored.                                          *)
(***************************************************************************)
\* C10: a line of more fields than the header yields one record, the record
\* of the line cut to the header's length; the surplus fields are in no
\* record, and a run of no line shorter than the header raises no
\* AttributeError.
C10_ExtraFieldsIgnored ==
    /\ \A j \in 1..Len(nfts) :
          /\ restkey \in DOMAIN all_rows[j] =>
                nfts[j] = MakeNft([key \in DOMAIN all_rows[j] \ {restkey} |->
                                      all_rows[j][key]])
          /\ "surplus" \notin NftFields(nfts[j])
    /\ HasHeader =>
          /\ \A j \in 1..Len(nfts) :
                Len(AllDataRows[j]) > Len(Header) =>
                    nfts[j] = MakeNft(MakeDict(Header,
                                  SubSeq(AllDataRows[j], 1, Len(Header))))
          /\ err = "AttributeError" =>
                \E j \in 1..Len(AllDataRows) : Len(AllDataRows[j]) < Len(Header)

C10_Witness ==
    /\ pc = "done"
    /\ Header = CanonicalHeader
    /\ AllDataRows = <<LongLine>>
    /\ out.content = <<[token_address |-> "0xdef",
                        token_id |-> "11",
                        name |-> "Cat",
                        image_url |-> "http://img/4.png",
                        metadata |-> [name |-> "Cat",
                                      image |-> "http://img/4.png"]]>>

====
